---- MODULE Spec2Model ----
(***************************************************************************)
(* NexCRM: the role-scoped data-access layer (server/storage.ts), the HTTP *)
(* handlers with their authorization checks (server/routes.ts) and the     *)
(* table definitions and request schemas (shared/schema.ts).               *)
(*                                                                         *)
(* A request is a process held in a slot of reqs.  Every action runs one   *)
(* handler from one await to the next: the database statement the handler  *)
(* is waiting for executes atomically, and the synchronous code after it   *)
(* runs up to the next statement or to the response.                       *)
(***************************************************************************)
EXTENDS Integers, Sequences, FiniteSets, TLC

VARIABLES
    leads,        \* table leads: the set of stored rows
    activities,   \* table activities: the set of stored rows
    leadSeq,      \* last value handed out by the serial of leads.id
    activitySeq,  \* last value handed out by the serial of activities.id
    now,          \* the clock read by new Date() and defaultNow()
    slots,        \* the slots in which requests may be in flight
    sockets,      \* wss.clients: the websocket connections of the server
    hooks,        \* hook -> the state of that instance of useWebSocket
    connSeq,      \* the number of websocket connections created so far
    reqs          \* slot -> the request in flight in it, or its response

vars == <<leads, activities, leadSeq, activitySeq, now, slots, sockets, hooks, connSeq, reqs>>

store == <<leads, activities, leadSeq, activitySeq>>

client == <<hooks, connSeq>>

----------------------------------------------------------------------------
(* Bounds                                                                  *)

MaxLeadId == 2

MaxActivityId == 1

MaxTime == 1

NumSlots == 1

NumHooks == 2

MaxConn == 3

----------------------------------------------------------------------------
(* JSON values of request bodies and nullable columns                      *)

Str(x0) == [t |-> "string", s |-> x0]

Num(x0) == [t |-> "number", n |-> x0]

Null == [t |-> "null"]

None == [t |-> "undefined"]

IsStr(j) == j.t = "string"

IsNum(j) == j.t = "number"

IsNull(j) == j.t = "null"

\* {...a, ...b}
Spread(a, b) ==
    [f \in DOMAIN a \cup DOMAIN b |-> IF f \in DOMAIN b THEN b[f] ELSE a[f]]

\* const { k, ...rest } = o
Omit(o, ks) == [f \in DOMAIN o \ ks |-> o[f]]

Pick(o, ks) == [f \in DOMAIN o \cap ks |-> o[f]]

----------------------------------------------------------------------------
(* shared/schema.ts: tables                                                *)

ADMIN == "admin"

MANAGER == "manager"

SALES == "sales_executive"

\* rows of table users; no route of routes.ts inserts or deletes a user
UsersTable ==
    { [id |-> 1, username |-> "root",  password |-> "h1.s1", role |-> ADMIN,   createdAt |-> -3],
      [id |-> 2, username |-> "mona",  password |-> "h2.s2", role |-> MANAGER, createdAt |-> -2],
      [id |-> 3, username |-> "sam",   password |-> "h3.s3", role |-> SALES,   createdAt |-> -1],
      [id |-> 4, username |-> "sue",   password |-> "h4.s4", role |-> SALES,   createdAt |-> -1] }

UserIds == {u.id : u \in UsersTable}

UserById(id) == CHOOSE u \in UsersTable : u.id = id

\* a request without a session has no req.user
Anonymous == 0

Callers == UserIds \cup {Anonymous}

\* req.user, as deserialized from the session
ReqUser(c) == IF c = Anonymous THEN None ELSE UserById(c)

RoleOf(c) == IF c = Anonymous THEN "" ELSE UserById(c).role

LeadIds == 1..MaxLeadId

ActivityIds == 1..MaxActivityId

Times == 0..MaxTime

LeadExists(ls, id) == \E l \in ls : l.id = id

LeadRow(ls, id) == CHOOSE l \in ls : l.id = id

----------------------------------------------------------------------------
(* shared/schema.ts: insertLeadSchema, insertActivitySchema                *)

LeadRequired == {"companyName", "contactName", "email", "source", "ownerId"}

LeadStrings == {"companyName", "contactName", "email", "phone", "status", "source"}

LeadNumbers == {"value", "ownerId"}

LeadNullable == {"phone", "value"}

LeadShape == LeadStrings \cup LeadNumbers

ActivityRequired == {"leadId", "userId", "type", "subject"}

ActivityStrings == {"type", "subject", "notes"}

ActivityNumbers == {"leadId", "userId"}

ActivityNullable == {"notes"}

ActivityShape == ActivityStrings \cup ActivityNumbers

\* one field against its column type; undefined counts as absent
FieldOk(j, f, strings, nullable) ==
    \/ j.t = "undefined"
    \/ IsNull(j) /\ f \in nullable
    \/ IsStr(j) /\ f \in strings
    \/ IsNum(j) /\ f \notin strings

Present(body) == {f \in DOMAIN body : body[f].t # "undefined"}

\* schema.parse(body) succeeds
SchemaOk(body, shape, required, strings, nullable) ==
    /\ \A f \in DOMAIN body \cap shape : FieldOk(body[f], f, strings, nullable)
    /\ required \subseteq Present(body)

\* what schema.parse(body) returns: unknown keys are stripped
SchemaOut(body, shape) == Pick(body, Present(body) \cap shape)

InsertLeadOk(body) == SchemaOk(body, LeadShape, LeadRequired, LeadStrings, LeadNullable)

\* insertLeadSchema.partial(): no field is required
PartialLeadOk(body) == SchemaOk(body, LeadShape, {}, LeadStrings, LeadNullable)

\* a schema that accepts every body
InsertActivityAny(body) == TRUE

InsertActivityOk(body) ==
    SchemaOk(body, ActivityShape, ActivityRequired, ActivityStrings, ActivityNullable)

\* a validated field as the value of its column
Col(j, f, nullable) ==
    IF f \in nullable THEN j ELSE IF IsStr(j) THEN j.s ELSE j.n

ColsOf(data, nullable) == [f \in DOMAIN data |-> Col(data[f], f, nullable)]

----------------------------------------------------------------------------
(* server/storage.ts: DatabaseStorage                                      *)

\* every order of the rows of S that ORDER BY created_at DESC may produce
OrderedDesc(S) ==
    { q \in [1..Cardinality(S) -> S] :
        /\ \A i, j \in DOMAIN q : i # j => q[i] # q[j]
        /\ \A i, j \in DOMAIN q : i < j => q[i].createdAt >= q[j].createdAt }

\* LEFT JOIN users ON users.id = id
JoinUser(id) == IF id \in UserIds THEN UserById(id) ELSE Null

WithOwner(l) == Spread(l, [owner |-> JoinUser(l.ownerId)])

WithUser(a) == Spread(a, [user |-> JoinUser(a.userId)])

\* RoleFilter without its WHERE clause
RoleFilterAll(ls, userId, role) == ls

\* the WHERE clause of getAllLeads, getStats and getAnalytics
RoleFilter(ls, userId, role) ==
    IF role = SALES /\ userId # Anonymous
    THEN {l \in ls : l.ownerId = userId}
    ELSE ls

getAllLeads(ls, userId, role) ==
    OrderedDesc({WithOwner(l) : l \in RoleFilter(ls, userId, role)})

getAllUsers == OrderedDesc(UsersTable)

\* first statement of getLeadById
SelectLead(ls, id) ==
    IF LeadExists(ls, id) THEN WithOwner(LeadRow(ls, id)) ELSE None

\* second statement of getLeadById, and getActivitiesByLeadId
getActivitiesByLeadId(as, leadId) ==
    OrderedDesc({WithUser(a) : a \in {b \in as : b.leadId = leadId}})

\* column defaults of table leads
LeadDefaults(id, t) ==
    [id |-> id, phone |-> Null, status |-> "new", value |-> Null,
     createdAt |-> t, updatedAt |-> t]

\* the foreign key leads.owner_id -> users.id
LeadFkOk(data) == "ownerId" \in DOMAIN data => data.ownerId.n \in UserIds

createLead(data, id, t) == Spread(LeadDefaults(id, t), ColsOf(data, LeadNullable))

\* an UPDATE that is lost
updateLeadLost(ls, id, data, ts) == ls

\* UPDATE leads SET ...updateData, updatedAt WHERE id = id
updateLead(ls, id, data, ts) ==
    { IF l.id = id
      THEN Spread(l, Spread(ColsOf(data, LeadNullable), [updatedAt |-> ts]))
      ELSE l : l \in ls }

deleteLead(ls, id) == {l \in ls : l.id # id}

\* a foreign key without ON DELETE CASCADE that deletes nothing
CascadeDeleteNone(as, leadId) == as

\* ON DELETE CASCADE of activities.lead_id
CascadeDelete(as, leadId) == {a \in as : a.leadId # leadId}

ActivityDefaults(id, t) == [id |-> id, notes |-> Null, createdAt |-> t]

\* a table activities without foreign keys
ActivityFkNone(ls, data) == TRUE

\* the foreign keys activities.lead_id -> leads.id and activities.user_id -> users.id
ActivityFkOk(ls, data) == LeadExists(ls, data.leadId.n) /\ data.userId.n \in UserIds

createActivity(data, id, t) == Spread(ActivityDefaults(id, t), ColsOf(data, ActivityNullable))

----------------------------------------------------------------------------
(* server/storage.ts: getStats                                             *)

TicksPerDay == 1

StatsDays == 7

\* toISOString().split('T')[0]
Day(ts) == ts \div TicksPerDay

RECURSIVE SumValue(_)
\* reduce((sum, l) => sum + (l.value || 0), 0)
SumValue(ls) ==
    IF ls = {} THEN 0
    ELSE LET l == CHOOSE x \in ls : TRUE
         IN (IF IsNum(l.value) THEN l.value.n ELSE 0) + SumValue(ls \ {l})

CountBy(ls, f) ==
    { [key |-> k, count |-> Cardinality({l \in ls : l[f] = k})] : k \in {l[f] : l \in ls} }

\* the seven dates, newest first
last7DaysNewestFirst(today) == [i \in 1..StatsDays |-> Day(today) - (i - 1)]

last7Days(today) == [i \in 1..StatsDays |-> Day(today) - (StatsDays - i)]

\* the part of getStats computed from the leads query
LeadStats(allLeads) ==
    [totalLeads     |-> Cardinality(allLeads),
     activeLeads    |-> Cardinality({l \in allLeads : l.status \notin {"won", "lost"}}),
     convertedLeads |-> Cardinality({l \in allLeads : l.status = "won"}),
     totalValue     |-> SumValue(allLeads),
     leadsByStatus  |-> CountBy(allLeads, "status"),
     leadsBySource  |-> CountBy(allLeads, "source")]

\* the activities query of getStats: every row of the table
StatsActivities(as, ls) == as

recentActivity(allActivities, days) ==
    [i \in DOMAIN days |->
        [date |-> days[i],
         count |-> Cardinality({a \in allActivities : Day(a.createdAt) = days[i]})]]

getStats(ls, as, userId, role, today) ==
    LET allLeads == RoleFilter(ls, userId, role)
    IN Spread(LeadStats(allLeads),
              [recentActivity |-> recentActivity(StatsActivities(as, allLeads), last7Days(today))])

\* getAnalytics: the counts (the ratios derived from them are not modelled)
getAnalytics(ls, userId, role) ==
    LET allLeads == RoleFilter(ls, userId, role)
        wonLeads == {l \in allLeads : l.status = "won"}
    IN [totalLeads |-> Cardinality(allLeads),
        wonLeads   |-> Cardinality(wonLeads),
        wonValue   |-> SumValue(wonLeads),
        performanceByUser |->
            { [user |-> u.username,
               leads |-> Cardinality({l \in allLeads : l.ownerId = u.id}),
               won   |-> Cardinality({l \in wonLeads : l.ownerId = u.id})] :
              u \in {v \in UsersTable : \E l \in allLeads : l.ownerId = v.id} },
        statusDistribution |-> CountBy(allLeads, "status")]

----------------------------------------------------------------------------
(* server/routes.ts: middleware and sanitizers                             *)

OK == 0

\* requireAuth without its session check
requireAuthOpen(c) == OK

\* requireAuth: the status it answers with, or OK when it calls next()
requireAuth(c) == IF c = Anonymous THEN 401 ELSE OK

\* requireRole without its role check
requireRoleAny(roles, c) == IF c = Anonymous THEN 401 ELSE OK

\* requireRole(...roles)
requireRole(roles, c) ==
    IF c = Anonymous THEN 401
    ELSE IF RoleOf(c) \notin roles THEN 403
    ELSE OK

Falsy(j) == "t" \in DOMAIN j /\ j.t \in {"undefined", "null"}

Field(o, f) == IF f \in DOMAIN o THEN o[f] ELSE None

\* sanitizeUser without the removal of the password
sanitizeUserKeep(user) == user

sanitizeUser(user) == IF Falsy(user) THEN user ELSE Omit(user, {"password"})

\* lead.activities.map(activity => ({ ...activity, user: sanitizeUser(activity.user) }))
sanitizeActivities(lead) ==
    [i \in DOMAIN lead.activities |->
       Spread(lead.activities[i], [user |-> sanitizeUser(lead.activities[i].user)])]

\* a key whose value is undefined is not serialized
sanitizeLead(lead) ==
    LET base == Spread(lead, [owner |-> sanitizeUser(Field(lead, "owner"))])
    IN IF "activities" \in DOMAIN lead
       THEN Spread(base, [activities |-> sanitizeActivities(lead)])
       ELSE base

\* users.map(({ password, ...user }) => user)
StripUsers(us) == [i \in DOMAIN us |-> Omit(us[i], {"password"})]

\* an ownership check that lets every caller through
NotOwnerNever(c, lead) == FALSE

\* req.user.role === "sales_executive" && lead.ownerId !== req.user.id
NotOwner(c, lead) == RoleOf(c) = SALES /\ lead.ownerId # c

\* ForceOwner without the overwrite of ownerId
ForceOwnerKeep(body, c) == body

\* POST /api/leads: dataToValidate
ForceOwner(body, c) ==
    IF RoleOf(c) = SALES THEN Spread(body, [ownerId |-> Num(c)]) ELSE body

\* ForceUser without the overwrite of userId
ForceUserKeep(body, c) == body

\* POST /api/activities: { ...req.body, userId: req.user?.id }
ForceUser(body, c) == Spread(body, [userId |-> Num(c)])

----------------------------------------------------------------------------
(* Requests                                                                *)

Idle ==
    [pc |-> "idle", route |-> "", caller |-> Anonymous, id |-> 0, body |-> None,
     data |-> None, lead |-> None, fresh |-> None, ts |-> 0, status |-> 0, resp |-> None,
     event |-> None, wrote |-> FALSE]

NewReq(route, c, id, body) ==
    [Idle EXCEPT !.pc = "start", !.route = route, !.caller = c, !.id = id, !.body = body]

Free(s) == s \in slots /\ reqs[s].pc \in {"idle", "done"}

At(s, route, pc) == s \in slots /\ reqs[s].route = route /\ reqs[s].pc = pc

\* res.status(status).json(body): the handler returns, its locals are dropped
Respond(r, status, body) ==
    [r EXCEPT !.pc = "done", !.status = status, !.resp = body,
              !.data = None, !.lead = None, !.fresh = None, !.ts = 0]

Error(msg) == [error |-> msg]

\* broadcastToClients(data): the event handed to the connections
broadcastToClients(r, ev) == [r EXCEPT !.event = ev]

OPEN == "OPEN"

\* ws.send(JSON.stringify({ type: 'connected', ... }))
Connected == [type |-> "connected", data |-> None]

\* a connection as the 'connection' handler leaves it: in wss.clients, open,
\* with the acknowledgement sent; out holds what was sent to it and has not
\* been received yet; throws tells whether client.send raises
Socket(id, throws) ==
    [id |-> id, readyState |-> OPEN, throws |-> throws, out |-> <<Connected>>]

\* client.send raises for a connection that broadcastToClients sends to
SendThrows(socks) == \E c \in socks : c.readyState = OPEN /\ c.throws

\* a loop that sends to every connection, whatever its readyState
DeliveredAll(socks, ev) ==
    IF ev = None THEN socks
    ELSE {[c EXCEPT !.out = Append(@, ev)] : c \in socks}

\* wss.clients.forEach: client.send for every open connection, in the order
\* the connections were added; a send that raises ends the loop
Delivered(socks, ev) ==
    IF ev = None THEN socks
    ELSE { IF /\ c.readyState = OPEN
              /\ ~\E d \in socks : d.id <= c.id /\ d.readyState = OPEN /\ d.throws
           THEN [c EXCEPT !.out = Append(@, ev)]
           ELSE c : c \in socks }

\* broadcastToClients(ev) followed by the response, inside the try block of
\* the handler: an exception of the broadcast is answered by the catch block
Broadcast(r, ev, status, body, caught) ==
    IF SendThrows(sockets)
    THEN Respond(broadcastToClients(r, ev), caught, Error("send failed"))
    ELSE Respond(broadcastToClients(r, ev), status, body)

Event(type, data) == [type |-> type, data |-> data]

EmptyBody == [f \in {} |-> None]

BaseLead ==
    [companyName |-> Str("Acme"), contactName |-> Str("Ann"),
     email |-> Str("ann@acme.io"), source |-> Str("web")]

\* request bodies of POST /api/leads
PostLeadBodies ==
    { BaseLead,
      Spread(BaseLead, [ownerId |-> Num(4), status |-> Str("won"), value |-> Num(5),
                        source |-> Str("referral"), id |-> Num(7)]),
      Omit(Spread(BaseLead, [ownerId |-> Num(3)]), {"companyName"}),
      Spread(BaseLead, [ownerId |-> Num(9)]) }

\* request bodies of PUT /api/leads/:id
PutLeadBodies ==
    { EmptyBody,
      [status |-> Str("lost")],
      [status |-> Str("won")],
      [ownerId |-> Num(4)],
      [value |-> Str("abc")] }

\* the body sent by the lead detail page: userId 0, notes null when empty
handleAddActivity(id) ==
    [leadId |-> Num(id), userId |-> Num(0), type |-> Str("note"),
     subject |-> Str("memo"), notes |-> Null]

\* request bodies of POST /api/activities
ActivityBodies ==
    { [leadId |-> Num(id), type |-> Str("call"), subject |-> Str("hello"),
       userId |-> Num(1)] : id \in LeadIds }
    \cup { handleAddActivity(id) : id \in LeadIds }
    \cup { [leadId |-> Num(id), type |-> Str("call")] : id \in LeadIds }

----------------------------------------------------------------------------
(* server/routes.ts: handlers                                              *)

\* the middleware of a route, then the handler up to its first await
Enter(s, r, gate, first) ==
    /\ Free(s)
    /\ reqs' = [reqs EXCEPT ![s] =
                  IF gate = 401 THEN Respond(r, 401, Error("Unauthorized"))
                  ELSE IF gate = 403 THEN Respond(r, 403, Error("Forbidden"))
                  ELSE first]
    /\ UNCHANGED <<store, now, slots, sockets, client>>

InFlight(route) == {s \in slots : reqs[s].route = route /\ reqs[s].pc \notin {"idle", "done"}}

\* GET /api/users
GetUsersStart(s) ==
    \E c \in Callers :
      LET r == NewReq("GET /api/users", c, 0, None)
      IN Enter(s, r, requireRole({ADMIN}, c), [r EXCEPT !.pc = "query"])

GetUsersQuery(s) ==
    /\ At(s, "GET /api/users", "query")
    /\ \E us \in getAllUsers :
         reqs' = [reqs EXCEPT ![s] = Respond(@, 200, StripUsers(us))]
    /\ UNCHANGED <<store, now, slots, sockets, client>>

\* GET /api/leads
GetLeadsStart(s) ==
    \E c \in Callers :
      LET r == NewReq("GET /api/leads", c, 0, None)
      IN Enter(s, r, requireAuth(c), [r EXCEPT !.pc = "query"])

GetLeadsQuery(s) ==
    /\ At(s, "GET /api/leads", "query")
    /\ \E q \in getAllLeads(leads, reqs[s].caller, RoleOf(reqs[s].caller)) :
         reqs' = [reqs EXCEPT ![s] =
                    Respond(@, 200, [i \in DOMAIN q |-> sanitizeLead(q[i])])]
    /\ UNCHANGED <<store, now, slots, sockets, client>>

\* GET /api/leads/:id
GetLeadStart(s) ==
    \E c \in Callers, id \in LeadIds :
      LET r == NewReq("GET /api/leads/:id", c, id, None)
      IN Enter(s, r, requireAuth(c), [r EXCEPT !.pc = "lead"])

\* getLeadById, first statement
GetLeadSelect(s) ==
    /\ At(s, "GET /api/leads/:id", "lead")
    /\ LET lead == SelectLead(leads, reqs[s].id)
       IN reqs' = [reqs EXCEPT ![s] =
                     IF lead = None THEN Respond(@, 404, Error("Lead not found"))
                     ELSE [@ EXCEPT !.pc = "activities", !.lead = lead]]
    /\ UNCHANGED <<store, now, slots, sockets, client>>

\* getLeadById, second statement, and the rest of the handler
GetLeadActivities(s) ==
    /\ At(s, "GET /api/leads/:id", "activities")
    /\ \E acts \in getActivitiesByLeadId(activities, reqs[s].id) :
         LET lead == Spread(reqs[s].lead, [activities |-> acts])
         IN reqs' = [reqs EXCEPT ![s] =
                       IF NotOwner(@.caller, lead) THEN Respond(@, 403, Error("Forbidden"))
                       ELSE Respond(@, 200, sanitizeLead(lead))]
    /\ UNCHANGED <<store, now, slots, sockets, client>>

\* POST /api/leads
PostLeadStart(s) ==
    \E c \in Callers, body \in PostLeadBodies :
      LET r == NewReq("POST /api/leads", c, 0, body)
          dataToValidate == ForceOwner(body, c)
      IN /\ leadSeq + Cardinality(InFlight("POST /api/leads")) < MaxLeadId
         /\ Enter(s, r, requireAuth(c),
                  IF InsertLeadOk(dataToValidate)
                  THEN [r EXCEPT !.pc = "insert", !.data = SchemaOut(dataToValidate, LeadShape)]
                  ELSE Respond(r, 400, Error("Required")))

\* storage.createLead, then the broadcast and the response
PostLeadInsert(s) ==
    /\ At(s, "POST /api/leads", "insert")
    /\ leadSeq' = leadSeq + 1
    /\ IF LeadFkOk(reqs[s].data)
       THEN LET lead == createLead(reqs[s].data, leadSeq', now)
            IN /\ leads' = leads \cup {lead}
               /\ reqs' = [reqs EXCEPT ![s] =
                    Broadcast([@ EXCEPT !.wrote = TRUE],
                              Event("lead_created", sanitizeLead(lead)), 201, lead, 400)]
       ELSE /\ leads' = leads
            /\ reqs' = [reqs EXCEPT ![s] = Respond(@, 400, Error("violates foreign key constraint"))]
    /\ sockets' = Delivered(sockets, reqs'[s].event)
    /\ UNCHANGED <<activities, activitySeq, now, slots, client>>

\* PUT /api/leads/:id
PutLeadStart(s) ==
    \E c \in Callers, id \in LeadIds, body \in PutLeadBodies :
      LET r == NewReq("PUT /api/leads/:id", c, id, body)
      IN Enter(s, r, requireAuth(c),
               IF PartialLeadOk(body)
               THEN [r EXCEPT !.pc = "lookup", !.data = SchemaOut(body, LeadShape)]
               ELSE Respond(r, 400, Error("Expected number, received string")))

\* getLeadById (its activities are not used), the checks, and the call of
\* storage.updateLead, which reads the clock
PutLeadLookup(s) ==
    /\ At(s, "PUT /api/leads/:id", "lookup")
    /\ LET existingLead == SelectLead(leads, reqs[s].id)
       IN reqs' = [reqs EXCEPT ![s] =
                     IF existingLead = None THEN Respond(@, 404, Error("Lead not found"))
                     ELSE IF NotOwner(@.caller, existingLead)
                          THEN Respond(@, 403, Error("Forbidden"))
                     ELSE [@ EXCEPT !.pc = "update", !.ts = now]]
    /\ UNCHANGED <<store, now, slots, sockets, client>>

\* the UPDATE ... RETURNING of storage.updateLead
PutLeadUpdate(s) ==
    /\ At(s, "PUT /api/leads/:id", "update")
    /\ LET r == reqs[s]
           found == LeadExists(leads, r.id)
       IN IF found /\ ~LeadFkOk(r.data)
          THEN /\ leads' = leads
               /\ reqs' = [reqs EXCEPT ![s] =
                             Respond(@, 400, Error("violates foreign key constraint"))]
          ELSE /\ leads' = updateLead(leads, r.id, r.data, r.ts)
               /\ reqs' = [reqs EXCEPT ![s] =
                             [@ EXCEPT !.pc = "refetch", !.wrote = found,
                                       !.lead = IF found THEN LeadRow(leads', r.id) ELSE None]]
    /\ UNCHANGED <<activities, leadSeq, activitySeq, now, slots, sockets, client>>

\* getLeadById after the update, first statement
PutLeadRefetch(s) ==
    /\ At(s, "PUT /api/leads/:id", "refetch")
    /\ LET updatedLead == SelectLead(leads, reqs[s].id)
       IN reqs' = [reqs EXCEPT ![s] =
                     IF updatedLead = None
                     THEN Broadcast(@, Event("lead_updated", @.lead), 200, @.lead, 400)
                     ELSE [@ EXCEPT !.pc = "refetch_activities", !.fresh = updatedLead]]
    /\ sockets' = Delivered(sockets, reqs'[s].event)
    /\ UNCHANGED <<store, now, slots, client>>

\* getLeadById after the update, second statement, the broadcast and the response
PutLeadRefetchActivities(s) ==
    /\ At(s, "PUT /api/leads/:id", "refetch_activities")
    /\ \E acts \in getActivitiesByLeadId(activities, reqs[s].id) :
         LET updatedLead == Spread(reqs[s].fresh, [activities |-> acts])
         IN reqs' = [reqs EXCEPT ![s] =
                       Broadcast(@, Event("lead_updated", sanitizeLead(updatedLead)),
                                 200, @.lead, 400)]
    /\ sockets' = Delivered(sockets, reqs'[s].event)
    /\ UNCHANGED <<store, now, slots, client>>

\* DELETE /api/leads/:id
DeleteLeadStart(s) ==
    \E c \in Callers, id \in LeadIds :
      LET r == NewReq("DELETE /api/leads/:id", c, id, None)
      IN Enter(s, r, requireRole({ADMIN, MANAGER}, c), [r EXCEPT !.pc = "lookup"])

DeleteLeadLookup(s) ==
    /\ At(s, "DELETE /api/leads/:id", "lookup")
    /\ LET existingLead == SelectLead(leads, reqs[s].id)
       IN reqs' = [reqs EXCEPT ![s] =
                     IF existingLead = None THEN Respond(@, 404, Error("Lead not found"))
                     ELSE [@ EXCEPT !.pc = "delete"]]
    /\ UNCHANGED <<store, now, slots, sockets, client>>

\* storage.deleteLead: one DELETE statement, with its cascade
DeleteLeadDelete(s) ==
    /\ At(s, "DELETE /api/leads/:id", "delete")
    /\ leads' = deleteLead(leads, reqs[s].id)
    /\ activities' = CascadeDelete(activities, reqs[s].id)
    /\ reqs' = [reqs EXCEPT ![s] =
                  Broadcast([@ EXCEPT !.wrote = LeadExists(leads, reqs[s].id)],
                            Event("lead_deleted", [id |-> @.id]), 204, None, 500)]
    /\ sockets' = Delivered(sockets, reqs'[s].event)
    /\ UNCHANGED <<leadSeq, activitySeq, now, slots, client>>

\* POST /api/activities
PostActivityStart(s) ==
    \E c \in Callers, body \in ActivityBodies :
      LET r == NewReq("POST /api/activities", c, body.leadId.n, body)
      IN /\ activitySeq + Cardinality(InFlight("POST /api/activities")) < MaxActivityId
         /\ Enter(s, r, requireAuth(c), [r EXCEPT !.pc = "lookup"])

\* getLeadById (its activities are not used), the checks and the validation
PostActivityLookup(s) ==
    /\ At(s, "POST /api/activities", "lookup")
    /\ LET lead == SelectLead(leads, reqs[s].id)
           toValidate == ForceUser(reqs[s].body, reqs[s].caller)
       IN reqs' = [reqs EXCEPT ![s] =
                     IF lead = None THEN Respond(@, 404, Error("Lead not found"))
                     ELSE IF NotOwner(@.caller, lead)
                          THEN Respond(@, 403, Error("Forbidden: You can only add activities to your own leads"))
                     ELSE IF ~InsertActivityOk(toValidate)
                          THEN Respond(@, 400, Error("Required"))
                     ELSE [@ EXCEPT !.pc = "insert",
                                    !.data = SchemaOut(toValidate, ActivityShape)]]
    /\ UNCHANGED <<store, now, slots, sockets, client>>

\* storage.createActivity, then the broadcast and the response
PostActivityInsert(s) ==
    /\ At(s, "POST /api/activities", "insert")
    /\ activitySeq' = activitySeq + 1
    /\ IF ActivityFkOk(leads, reqs[s].data)
       THEN LET activity == createActivity(reqs[s].data, activitySeq', now)
                user == sanitizeUser(ReqUser(reqs[s].caller))
            IN /\ activities' = activities \cup {activity}
               /\ reqs' = [reqs EXCEPT ![s] =
                    Broadcast([@ EXCEPT !.wrote = TRUE],
                              Event("activity_created", Spread(activity, [user |-> user])),
                              201, activity, 400)]
       ELSE /\ activities' = activities
            /\ reqs' = [reqs EXCEPT ![s] = Respond(@, 400, Error("violates foreign key constraint"))]
    /\ sockets' = Delivered(sockets, reqs'[s].event)
    /\ UNCHANGED <<leads, leadSeq, now, slots, client>>

\* GET /api/stats
GetStatsStart(s) ==
    \E c \in Callers :
      LET r == NewReq("GET /api/stats", c, 0, None)
      IN Enter(s, r, requireAuth(c), [r EXCEPT !.pc = "leads"])

\* getStats: the leads query, the counts and the seven dates
GetStatsLeads(s) ==
    /\ At(s, "GET /api/stats", "leads")
    /\ reqs' = [reqs EXCEPT ![s] =
                  [@ EXCEPT !.pc = "activities", !.ts = now,
                            !.data = LeadStats(RoleFilter(leads, reqs[s].caller,
                                                         RoleOf(reqs[s].caller)))]]
    /\ UNCHANGED <<store, now, slots, sockets, client>>

\* getStats: the activities query and the response
GetStatsActivities(s) ==
    /\ At(s, "GET /api/stats", "activities")
    /\ LET r == reqs[s]
           allLeads == RoleFilter(leads, r.caller, RoleOf(r.caller))
           stats == Spread(r.data,
                      [recentActivity |->
                         recentActivity(StatsActivities(activities, allLeads), last7Days(r.ts))])
       IN reqs' = [reqs EXCEPT ![s] = Respond(@, 200, stats)]
    /\ UNCHANGED <<store, now, slots, sockets, client>>

\* GET /api/analytics
GetAnalyticsStart(s) ==
    \E c \in Callers :
      LET r == NewReq("GET /api/analytics", c, 0, None)
      IN Enter(s, r, requireRole({ADMIN, MANAGER}, c), [r EXCEPT !.pc = "query"])

GetAnalyticsQuery(s) ==
    /\ At(s, "GET /api/analytics", "query")
    /\ reqs' = [reqs EXCEPT ![s] =
                  Respond(@, 200, getAnalytics(leads, @.caller, RoleOf(@.caller)))]
    /\ UNCHANGED <<store, now, slots, sockets, client>>

\* the clock advances
Tick ==
    /\ now < MaxTime
    /\ now' = now + 1
    /\ UNCHANGED <<store, slots, sockets, client, reqs>>

----------------------------------------------------------------------------
(* hooks/use-websocket: useWebSocket, and the connections it makes          *)

\* setTimeout(..., 5000)
ReconnectDelay == 5000

HookIds == 1..NumHooks

\* the user logged in where the hook runs: a sales_executive, a manager
HookUser(h) == IF h = 1 THEN 4 ELSE 2

EventTypes == {"lead_created", "lead_updated", "lead_deleted", "activity_created"}

\* the hook before its effect has run, and the query cache of its page:
\* ws is ws.current (0 for null) with its readyState, timer the delay of the
\* pending reconnectTimeout (0 for none), leads the cached data of
\* ["/api/leads"], fetching the answer of a refetch that is under way
NewHook(h) ==
    [user |-> HookUser(h), mounted |-> "no", ws |-> 0, readyState |-> "",
     connected |-> FALSE, timer |-> 0,
     leads |-> None, staleLeads |-> TRUE, staleStats |-> TRUE, fetching |-> None]

\* connect(): ws.current = new WebSocket(wsUrl)
connect(hk, id) == [hk EXCEPT !.ws = id, !.readyState = "CONNECTING"]

\* ws.current.onopen
onopen(hk) == [hk EXCEPT !.readyState = OPEN, !.connected = TRUE]

\* queryClient.invalidateQueries({ queryKey }): the query is marked stale
\* and a refetch that is under way is cancelled
invalidateQueries(hk, key) ==
    IF key = "/api/leads"
    THEN [hk EXCEPT !.staleLeads = TRUE, !.fetching = None]
    ELSE [hk EXCEPT !.staleStats = TRUE]

\* an onmessage that invalidates the lead list only
onmessageLeadsOnly(hk, msg) ==
    IF msg.type \in EventTypes THEN invalidateQueries(hk, "/api/leads") ELSE hk

\* ws.current.onmessage
onmessage(hk, msg) ==
    IF msg.type \in EventTypes
    THEN invalidateQueries(invalidateQueries(hk, "/api/leads"), "/api/stats")
    ELSE hk

\* an onclose that schedules no reconnect
oncloseQuiet(hk) == [hk EXCEPT !.readyState = "CLOSED", !.connected = FALSE]

\* ws.current.onclose
onclose(hk) ==
    [hk EXCEPT !.readyState = "CLOSED", !.connected = FALSE, !.timer = ReconnectDelay]

\* a callback that leaves its timer pending
timeoutStill(hk) == hk

\* the callback of reconnectTimeout runs: the timer is no longer pending
timeout(hk) == [hk EXCEPT !.timer = 0]

\* the cleanup of useEffect: clearTimeout, ws.current.close()
cleanup(hk) ==
    [hk EXCEPT !.mounted = "gone", !.timer = 0,
               !.readyState = IF @ \in {"CONNECTING", OPEN} THEN "CLOSING" ELSE @]

SocketOf(hk) == {c \in sockets : c.id = hk.ws}

\* useEffect(() => { connect(); ... }, [])
HookMount(h) ==
    /\ hooks[h].mounted = "no"
    /\ connSeq < MaxConn
    /\ connSeq' = connSeq + 1
    /\ hooks' = [hooks EXCEPT ![h] = connect([@ EXCEPT !.mounted = "yes"], connSeq')]
    /\ UNCHANGED <<store, now, slots, sockets, reqs>>

\* the handshake completes: wss emits 'connection', the acknowledgement is
\* sent, and the hook's onopen runs
WsConnection(h) ==
    /\ hooks[h].readyState = "CONNECTING"
    /\ sockets' = sockets \cup {Socket(hooks[h].ws, FALSE)}
    /\ hooks' = [hooks EXCEPT ![h] = onopen(@)]
    /\ UNCHANGED <<store, now, slots, connSeq, reqs>>

\* the next message sent to the connection of the hook is received
HookMessage(h) ==
    /\ hooks[h].readyState \in {OPEN, "CLOSING"}
    /\ \E c \in SocketOf(hooks[h]) :
         /\ c.out # <<>>
         /\ sockets' = (sockets \ {c}) \cup {[c EXCEPT !.out = Tail(@)]}
         /\ hooks' = [hooks EXCEPT ![h] = onmessage(@, Head(c.out))]
    /\ UNCHANGED <<store, now, slots, connSeq, reqs>>

\* the server side of a connection starts to close: it stays in wss.clients
\* until its 'close' event
WsClosing(h) ==
    /\ \E c \in SocketOf(hooks[h]) :
         /\ c.readyState = OPEN
         /\ sockets' = (sockets \ {c}) \cup {[c EXCEPT !.readyState = "CLOSING"]}
    /\ UNCHANGED <<store, now, slots, client, reqs>>

\* the connection of the hook ends, or its handshake fails: it leaves
\* wss.clients and the hook's onclose runs
WsClose(h) ==
    /\ hooks[h].readyState \in {"CONNECTING", OPEN, "CLOSING"}
    /\ sockets' = sockets \ SocketOf(hooks[h])
    /\ hooks' = [hooks EXCEPT ![h] = onclose(@)]
    /\ UNCHANGED <<store, now, slots, connSeq, reqs>>

\* reconnectTimeout fires: connect()
HookTimer(h) ==
    /\ hooks[h].timer # 0
    /\ connSeq < MaxConn
    /\ connSeq' = connSeq + 1
    /\ hooks' = [hooks EXCEPT ![h] = connect(timeout(@), connSeq')]
    /\ UNCHANGED <<store, now, slots, sockets, reqs>>

\* the component unmounts
HookUnmount(h) ==
    /\ hooks[h].mounted = "yes"
    /\ hooks' = [hooks EXCEPT ![h] = cleanup(@)]
    /\ UNCHANGED <<store, now, slots, sockets, connSeq, reqs>>

\* the page refetches ["/api/leads"]: GET /api/leads is answered
HookFetch(h) ==
    /\ hooks[h].mounted = "yes"
    /\ hooks[h].staleLeads /\ hooks[h].fetching = None
    /\ \E q \in getAllLeads(leads, hooks[h].user, RoleOf(hooks[h].user)) :
         hooks' = [hooks EXCEPT ![h] =
                     [@ EXCEPT !.staleLeads = FALSE,
                               !.fetching = [rows |-> [i \in DOMAIN q |-> sanitizeLead(q[i])]]]]
    /\ UNCHANGED <<store, now, slots, sockets, connSeq, reqs>>

\* the answer of the refetch arrives and is put in the cache
HookFetchDone(h) ==
    /\ hooks[h].fetching # None
    /\ hooks' = [hooks EXCEPT ![h] = [@ EXCEPT !.leads = hooks[h].fetching, !.fetching = None]]
    /\ UNCHANGED <<store, now, slots, sockets, connSeq, reqs>>

\* the page refetches ["/api/stats"]
HookFetchStats(h) ==
    /\ hooks[h].mounted = "yes"
    /\ hooks[h].staleStats
    /\ hooks' = [hooks EXCEPT ![h] = [@ EXCEPT !.staleStats = FALSE]]
    /\ UNCHANGED <<store, now, slots, sockets, connSeq, reqs>>

----------------------------------------------------------------------------
(* Specification                                                           *)

Slots == 1..NumSlots

Init ==
    /\ leads = {}
    /\ activities = {}
    /\ leadSeq = 0
    /\ activitySeq = 0
    /\ now = 0
    /\ slots = Slots
    /\ sockets = {}
    /\ hooks = [h \in {} |-> NewHook(h)]
    /\ connSeq = 0
    /\ reqs = [s \in Slots |-> Idle]

\* the handlers of server/routes.ts
Next ==
    \/ \E s \in slots : GetUsersStart(s)
    \/ \E s \in slots : GetUsersQuery(s)
    \/ \E s \in slots : GetLeadsStart(s)
    \/ \E s \in slots : GetLeadsQuery(s)
    \/ \E s \in slots : GetLeadStart(s)
    \/ \E s \in slots : GetLeadSelect(s)
    \/ \E s \in slots : GetLeadActivities(s)
    \/ \E s \in slots : PostLeadStart(s)
    \/ \E s \in slots : PostLeadInsert(s)
    \/ \E s \in slots : PutLeadStart(s)
    \/ \E s \in slots : PutLeadLookup(s)
    \/ \E s \in slots : PutLeadUpdate(s)
    \/ \E s \in slots : PutLeadRefetch(s)
    \/ \E s \in slots : PutLeadRefetchActivities(s)
    \/ \E s \in slots : DeleteLeadStart(s)
    \/ \E s \in slots : DeleteLeadLookup(s)
    \/ \E s \in slots : DeleteLeadDelete(s)
    \/ \E s \in slots : PostActivityStart(s)
    \/ \E s \in slots : PostActivityLookup(s)
    \/ \E s \in slots : PostActivityInsert(s)
    \/ \E s \in slots : GetStatsStart(s)
    \/ \E s \in slots : GetStatsLeads(s)
    \/ \E s \in slots : GetStatsActivities(s)
    \/ \E s \in slots : GetAnalyticsStart(s)
    \/ \E s \in slots : GetAnalyticsQuery(s)

\* requests handled one after another within one instant of the clock
Spec == Init /\ [][Next]_vars

\* the dashboard over a running clock: leads and activities are created on
\* different days and the statistics are read
NextStats ==
    \/ Tick
    \/ \E s \in slots : PostLeadStart(s)
    \/ \E s \in slots : PostLeadInsert(s)
    \/ \E s \in slots : PostActivityStart(s)
    \/ \E s \in slots : PostActivityLookup(s)
    \/ \E s \in slots : PostActivityInsert(s)
    \/ \E s \in slots : GetStatsStart(s)
    \/ \E s \in slots : GetStatsLeads(s)
    \/ \E s \in slots : GetStatsActivities(s)

SpecStats == Init /\ [][NextStats]_vars

\* the lead stored by a POST /api/leads of sales_executive 3 with body BaseLead
RaceLead == createLead(SchemaOut(ForceOwner(BaseLead, 3), LeadShape), 1, 0)

\* the callers, the lead and the bodies of the requests that race
RaceCallers == {2, 3}

RaceBodies == {None, EmptyBody, [status |-> Str("lost")], [status |-> Str("won")]}
                 \cup {handleAddActivity(1)}

Racing(s) ==
    /\ reqs'[s].caller \in RaceCallers
    /\ reqs'[s].id = 1
    /\ reqs'[s].body \in RaceBodies

\* two requests in flight at once on a stored lead
InitRace ==
    /\ leads = {RaceLead}
    /\ activities = {}
    /\ leadSeq = 1
    /\ activitySeq = 0
    /\ now = 0
    /\ slots = 1..(NumSlots + 1)
    /\ sockets = {}
    /\ hooks = [h \in {} |-> NewHook(h)]
    /\ connSeq = 0
    /\ reqs = [s \in slots |-> Idle]

\* updates, deletions and new activities of one lead, interleaved at their
\* awaits, over a running clock
NextRace ==
    \/ Tick
    \/ \E s \in slots : PutLeadStart(s) /\ Racing(s)
    \/ \E s \in slots : PutLeadLookup(s)
    \/ \E s \in slots : PutLeadUpdate(s)
    \/ \E s \in slots : PutLeadRefetch(s)
    \/ \E s \in slots : PutLeadRefetchActivities(s)
    \/ \E s \in slots : DeleteLeadStart(s) /\ Racing(s)
    \/ \E s \in slots : DeleteLeadLookup(s)
    \/ \E s \in slots : DeleteLeadDelete(s)
    \/ \E s \in slots : PostActivityStart(s) /\ Racing(s)
    \/ \E s \in slots : PostActivityLookup(s)
    \/ \E s \in slots : PostActivityInsert(s)

SpecRace == InitRace /\ [][NextRace]_vars

\* the requests and the pages that run while the hooks are connected
LiveCallers == {2, 3, 4}

LiveBodies == {None, BaseLead}

Live(s) ==
    /\ reqs'[s].caller \in LiveCallers
    /\ reqs'[s].body \in LiveBodies

\* leads are created and deleted while the hooks connect, receive, lose their
\* connection, reconnect and unmount
NextLive ==
    \/ \E s \in slots : PostLeadStart(s) /\ Live(s)
    \/ \E s \in slots : PostLeadInsert(s)
    \/ \E s \in slots : DeleteLeadStart(s) /\ Live(s)
    \/ \E s \in slots : DeleteLeadLookup(s)
    \/ \E s \in slots : DeleteLeadDelete(s)
    \/ \E h \in DOMAIN hooks : HookMount(h)
    \/ \E h \in DOMAIN hooks : WsConnection(h)
    \/ \E h \in DOMAIN hooks : HookMessage(h)
    \/ \E h \in DOMAIN hooks : WsClosing(h)
    \/ \E h \in DOMAIN hooks : WsClose(h)
    \/ \E h \in DOMAIN hooks : HookTimer(h)
    \/ \E h \in DOMAIN hooks : HookUnmount(h)
    \/ \E h \in DOMAIN hooks : HookFetch(h)
    \/ \E h \in DOMAIN hooks : HookFetchDone(h)
    \/ \E h \in DOMAIN hooks : HookFetchStats(h)

\* one page, of a sales_executive
InitLive ==
    /\ leads = {}
    /\ activities = {}
    /\ leadSeq = 0
    /\ activitySeq = 0
    /\ now = 0
    /\ slots = Slots
    /\ sockets = {}
    /\ hooks = [h \in {1} |-> NewHook(h)]
    /\ connSeq = 0
    /\ reqs = [s \in Slots |-> Idle]

SpecLive == InitLive /\ [][NextLive]_vars

\* several pages at once
InitFanout ==
    /\ leads = {}
    /\ activities = {}
    /\ leadSeq = 0
    /\ activitySeq = 0
    /\ now = 0
    /\ slots = Slots
    /\ sockets = {}
    /\ hooks = [h \in HookIds |-> NewHook(h)]
    /\ connSeq = 0
    /\ reqs = [s \in Slots |-> Idle]

FanoutCallers == {2, 3}

Fanout(s) ==
    /\ reqs'[s].caller \in FanoutCallers
    /\ reqs'[s].body \in LiveBodies
    /\ reqs'[s].id \in {0, 1}

\* leads are created and deleted while the connections of several pages
\* open, receive, close and are replaced
NextFanout ==
    \/ \E s \in slots : PostLeadStart(s) /\ Fanout(s)
    \/ \E s \in slots : PostLeadInsert(s)
    \/ \E s \in slots : DeleteLeadStart(s) /\ Fanout(s)
    \/ \E s \in slots : DeleteLeadLookup(s)
    \/ \E s \in slots : DeleteLeadDelete(s)
    \/ \E h \in DOMAIN hooks : HookMount(h)
    \/ \E h \in DOMAIN hooks : WsConnection(h)
    \/ \E h \in DOMAIN hooks : HookMessage(h)
    \/ \E h \in DOMAIN hooks : WsClosing(h)
    \/ \E h \in DOMAIN hooks : WsClose(h)
    \/ \E h \in DOMAIN hooks : HookTimer(h)

SpecFanout == InitFanout /\ [][NextFanout]_vars

\* one page whose connection is lost and replaced while a lead is created;
\* a timer that is pending fires
NextReconnect ==
    \/ \E s \in slots : PostLeadStart(s) /\ Fanout(s)
    \/ \E s \in slots : PostLeadInsert(s)
    \/ \E h \in DOMAIN hooks : HookMount(h)
    \/ \E h \in DOMAIN hooks : WsConnection(h)
    \/ \E h \in DOMAIN hooks : HookMessage(h)
    \/ \E h \in DOMAIN hooks : WsClosing(h)
    \/ \E h \in DOMAIN hooks : WsClose(h)
    \/ \E h \in DOMAIN hooks : HookTimer(h)
    \/ \E h \in DOMAIN hooks : HookUnmount(h)

SpecReconnect ==
    InitLive /\ [][NextReconnect]_vars /\ WF_vars(\E h \in DOMAIN hooks : HookTimer(h))

\* a sales_executive and a manager work on the lead of the sales_executive
ReassignBodies == {EmptyBody, [status |-> Str("lost")], [ownerId |-> Num(4)], handleAddActivity(1)}

Reassigning(s) ==
    /\ reqs'[s].caller \in RaceCallers
    /\ reqs'[s].id = 1
    /\ reqs'[s].body \in ReassignBodies

\* updates, one of which gives the lead to another owner, and new activities,
\* interleaved at their awaits
NextReassign ==
    \/ \E s \in slots : PutLeadStart(s) /\ Reassigning(s)
    \/ \E s \in slots : PutLeadLookup(s)
    \/ \E s \in slots : PutLeadUpdate(s)
    \/ \E s \in slots : PutLeadRefetch(s)
    \/ \E s \in slots : PutLeadRefetchActivities(s)
    \/ \E s \in slots : PostActivityStart(s) /\ Reassigning(s)
    \/ \E s \in slots : PostActivityLookup(s)
    \/ \E s \in slots : PostActivityInsert(s)

SpecReassign == InitRace /\ [][NextReassign]_vars

\* two connections are open, and client.send raises for the first of them
InitFaulty ==
    /\ leads = {}
    /\ activities = {}
    /\ leadSeq = 0
    /\ activitySeq = 0
    /\ now = 0
    /\ slots = Slots
    /\ sockets = {Socket(1, TRUE), Socket(2, FALSE)}
    /\ hooks = [h \in {} |-> NewHook(h)]
    /\ connSeq = 2
    /\ reqs = [s \in Slots |-> Idle]

SpecFaulty == InitFaulty /\ [][Next]_vars

----------------------------------------------------------------------------
(* Properties                                                              *)

\* the request in slot s takes a step
Stepped(s) == s \in slots /\ reqs'[s] # reqs[s]

\* the request in slot s takes the step that answers it
Answered(s, route) ==
    Stepped(s) /\ reqs'[s].route = route /\ reqs'[s].pc = "done"

\* a stored row as it appears in a response, without its joined rows
Bare(row) == Omit(row, {"owner", "activities"})

Range(q) == {q[i] : i \in DOMAIN q}

\* C1: the list answered by GET /api/leads holds, once each, exactly the
\* stored leads owned by the caller when the caller is a sales_executive, and
\* every stored lead when the caller is an admin or a manager.
C1_ListLeadsFiltered ==
    [][\A s \in slots :
         Answered(s, "GET /api/leads") /\ reqs[s].pc = "query" =>
           LET c == reqs[s].caller
               list == reqs'[s].resp
               expected == IF RoleOf(c) = SALES
                           THEN {l \in leads : l.ownerId = c}
                           ELSE leads
           IN /\ reqs'[s].status = 200
              /\ Len(list) = Cardinality(expected)
              /\ {Bare(x) : x \in Range(list)} = expected]_vars

\* a sales_executive was answered a list that leaves out a stored lead of
\* another owner and holds a lead of their own
C1_Witness ==
    \E s \in slots :
      /\ reqs[s].route = "GET /api/leads" /\ reqs[s].pc = "done"
      /\ reqs[s].status = 200
      /\ RoleOf(reqs[s].caller) = SALES
      /\ Len(reqs[s].resp) = 1
      /\ \E l \in leads : l.ownerId # reqs[s].caller
      /\ \E l \in leads : l.ownerId = reqs[s].caller

\* C2: the lead stored by a successful POST /api/leads of a sales_executive
\* is owned by the caller, whatever ownerId the body carries.
C2_CreateForcesOwner ==
    [][\A s \in slots :
         /\ Answered(s, "POST /api/leads")
         /\ reqs'[s].status = 201
         /\ RoleOf(reqs'[s].caller) = SALES
         => /\ \E l \in leads' \ leads : l.id = leadSeq' /\ l.ownerId = reqs'[s].caller
            /\ reqs'[s].resp.ownerId = reqs'[s].caller]_vars

\* a sales_executive has created a lead with a body naming another owner
C2_Witness ==
    \E s \in slots :
      /\ reqs[s].route = "POST /api/leads" /\ reqs[s].pc = "done"
      /\ reqs[s].status = 201
      /\ RoleOf(reqs[s].caller) = SALES
      /\ "ownerId" \in DOMAIN reqs[s].body
      /\ reqs[s].body.ownerId.n # reqs[s].caller
      /\ \E l \in leads : l.id = reqs[s].resp.id /\ l.ownerId = reqs[s].caller

\* C3: GET /api/leads/:id on a lead that exists does not answer 404; it
\* answers 403 to a sales_executive who is not the owner of the lead it read,
\* and 200 with that lead, its owner and its activities to the owner and to
\* every admin and manager.
C3_LeadDetailByOwnership ==
    [][\A s \in slots :
         /\ (Stepped(s) /\ reqs[s].route = "GET /api/leads/:id" /\ reqs[s].pc = "lead"
               /\ LeadExists(leads, reqs[s].id)
             => /\ reqs'[s].pc = "activities"
                /\ Bare(reqs'[s].lead) = LeadRow(leads, reqs[s].id))
         /\ (Answered(s, "GET /api/leads/:id") /\ reqs[s].pc = "activities"
             => LET c == reqs[s].caller
                    lead == reqs[s].lead
                    r == reqs'[s]
                IN IF RoleOf(c) = SALES /\ lead.ownerId # c
                   THEN r.status = 403 /\ "id" \notin DOMAIN r.resp
                   ELSE /\ r.status = 200
                        /\ Bare(r.resp) = Bare(lead)
                        /\ r.resp.owner.id = lead.ownerId
                        /\ {Omit(a, {"user"}) : a \in Range(r.resp.activities)}
                             = {a \in activities : a.leadId = lead.id}
                        /\ Len(r.resp.activities)
                             = Cardinality({a \in activities : a.leadId = lead.id}))]_vars

\* a sales_executive was refused the detail of a lead of another owner
C3_WitnessForbidden ==
    \E s \in slots :
      /\ reqs[s].route = "GET /api/leads/:id" /\ reqs[s].pc = "done"
      /\ reqs[s].status = 403
      /\ RoleOf(reqs[s].caller) = SALES
      /\ \E l \in leads : l.id = reqs[s].id /\ l.ownerId # reqs[s].caller

\* an admin or a manager was answered the detail of a lead of another user
\* that has an activity
C3_Witness ==
    \E s \in slots :
      /\ reqs[s].route = "GET /api/leads/:id" /\ reqs[s].pc = "done"
      /\ reqs[s].status = 200
      /\ RoleOf(reqs[s].caller) \in {ADMIN, MANAGER}
      /\ Len(reqs[s].resp.activities) > 0
      /\ reqs[s].resp.ownerId \notin {reqs[s].caller}

OwnerChecked == {"PUT /api/leads/:id", "POST /api/activities"}

\* the lead that the request in slot s targets is stored and owned by
\* somebody other than the sales_executive who sent the request
ForeignLead(r) ==
    /\ RoleOf(r.caller) = SALES
    /\ LeadExists(leads, r.id)
    /\ LeadRow(leads, r.id).ownerId # r.caller

\* C4 as stated: every PUT /api/leads/:id and POST /api/activities of a
\* sales_executive against a stored lead of another owner is answered 403,
\* changes no row and broadcasts nothing.
C4_Original ==
    [][\A s \in slots :
         /\ Stepped(s)
         /\ reqs'[s].route \in OwnerChecked
         /\ ForeignLead(reqs'[s])
         /\ ~reqs[s].wrote
         => /\ reqs'[s].pc = "done" => reqs'[s].status = 403
            /\ reqs'[s].pc \in {"done", "lookup"}
            /\ reqs'[s].event = None
            /\ UNCHANGED store]_vars

\* C4 (amended): when the lookup of a POST /api/activities, or of a PUT
\* /api/leads/:id whose body passed validation, reads a lead owned by somebody
\* other than the calling sales_executive, the request is answered 403; a
\* PUT whose body fails validation is answered 400 before any lookup.  In both
\* cases no row changes and nothing is broadcast.
C4_ForeignLeadRefused ==
    [][\A s \in slots :
         /\ Stepped(s)
         /\ reqs'[s].route \in OwnerChecked
         /\ ForeignLead(reqs'[s])
         /\ reqs[s].pc \in {"idle", "done", "lookup"}
         => /\ reqs'[s].pc = "done" =>
                 reqs'[s].status =
                   IF reqs'[s].route = "PUT /api/leads/:id" /\ ~PartialLeadOk(reqs'[s].body)
                   THEN 400 ELSE 403
            /\ reqs'[s].pc \in {"done", "lookup"}
            /\ reqs'[s].pc = "lookup" =>
                 reqs'[s].route = "POST /api/activities" \/ PartialLeadOk(reqs'[s].body)
            /\ reqs'[s].event = None
            /\ ~reqs'[s].wrote
            /\ UNCHANGED store]_vars

\* a sales_executive was answered 403 to an update of a lead of another owner
C4_Witness ==
    \E s \in slots :
      /\ reqs[s].route = "PUT /api/leads/:id" /\ reqs[s].pc = "done"
      /\ reqs[s].status = 403
      /\ ForeignLead(reqs[s])
      /\ PartialLeadOk(reqs[s].body)

\* a sales_executive was answered 403 to an activity on a lead of another owner
C4_WitnessActivity ==
    \E s \in slots :
      /\ reqs[s].route = "POST /api/activities" /\ reqs[s].pc = "done"
      /\ reqs[s].status = 403
      /\ ForeignLead(reqs[s])

\* the roles a role-gated route lets through
AllowedRoles(route) ==
    IF route = "GET /api/users" THEN {ADMIN} ELSE {ADMIN, MANAGER}

RoleGated == {"DELETE /api/leads/:id", "GET /api/users", "GET /api/analytics"}

\* C5: a role-gated route (DELETE /api/leads/:id and GET /api/analytics for
\* admin and manager, GET /api/users for admin) answers every authenticated
\* caller of another role 403 at once, changing no row and broadcasting
\* nothing, and never answers 403 to a caller of an allowed role.
C5_RoleGates ==
    [][\A s \in slots :
         Stepped(s) /\ reqs'[s].route \in RoleGated /\ reqs'[s].caller # Anonymous =>
           IF RoleOf(reqs'[s].caller) \in AllowedRoles(reqs'[s].route)
           THEN reqs'[s].status # 403
           ELSE /\ reqs'[s].pc = "done"
                /\ reqs'[s].status = 403
                /\ reqs'[s].event = None
                /\ ~reqs'[s].wrote
                /\ UNCHANGED store]_vars

\* a sales_executive was refused the deletion of a lead they own
C5_Witness ==
    \E s \in slots :
      /\ reqs[s].route = "DELETE /api/leads/:id" /\ reqs[s].pc = "done"
      /\ reqs[s].status = 403
      /\ RoleOf(reqs[s].caller) = SALES
      /\ \E l \in leads : l.id = reqs[s].id /\ l.ownerId = reqs[s].caller

LeadTargeting ==
    {"GET /api/leads/:id", "PUT /api/leads/:id", "DELETE /api/leads/:id",
     "POST /api/activities"}

\* C6 as stated: a lead-targeting request of an authenticated caller that is
\* answered while no lead with its id is stored is answered 404, whatever the
\* role of the caller (stated for the requests whose body is well-formed; a
\* PUT with a malformed body is answered 400 before any lookup).
C6_NotFoundFirst ==
    [][\A s \in slots :
         /\ Stepped(s)
         /\ reqs'[s].route \in LeadTargeting
         /\ reqs'[s].caller # Anonymous
         /\ reqs'[s].pc = "done"
         /\ ~LeadExists(leads, reqs'[s].id)
         /\ reqs'[s].route = "PUT /api/leads/:id" => PartialLeadOk(reqs'[s].body)
         => reqs'[s].status = 404]_vars

\* C7: a request without a session is answered 401 by its first step, on
\* every route, changing no row and broadcasting nothing.
C7_Unauthorized ==
    [][\A s \in slots :
         Stepped(s) /\ reqs'[s].caller = Anonymous =>
           /\ reqs[s].pc \in {"idle", "done"}
           /\ reqs'[s].pc = "done"
           /\ reqs'[s].status = 401
           /\ reqs'[s].event = None
           /\ ~reqs'[s].wrote
           /\ UNCHANGED store]_vars

\* a request without a session for the lead list was answered 401 while a
\* lead is stored
C7_Witness ==
    \E s \in slots :
      /\ reqs[s].pc = "done" /\ reqs[s].caller = Anonymous
      /\ reqs[s].route = "GET /api/leads"
      /\ reqs[s].status = 401
      /\ leads # {}

\* C8: no state holds an activity whose lead is not stored; the step that
\* answers a DELETE /api/leads/:id with 204 leaves neither the lead nor an
\* activity of it; a lead that has been removed is never stored again, and a
\* GET /api/leads/:id that looks up an id that is not stored is answered 404.
C8_DeleteCascades ==
    [][/\ \A a \in activities' : LeadExists(leads', a.leadId)
       /\ \A s \in slots :
            Answered(s, "DELETE /api/leads/:id") /\ reqs'[s].status = 204 =>
              /\ ~LeadExists(leads', reqs'[s].id)
              /\ \A a \in activities' : a.leadId # reqs'[s].id
       /\ \A id \in LeadIds :
            id <= leadSeq /\ ~LeadExists(leads, id) => ~LeadExists(leads', id)
       /\ \A s \in slots :
            /\ Stepped(s) /\ reqs[s].route = "GET /api/leads/:id" /\ reqs[s].pc = "lead"
            /\ ~LeadExists(leads, reqs[s].id)
            => reqs'[s].pc = "done" /\ reqs'[s].status = 404]_vars

\* a lead that had an activity was deleted, and a later GET of it was
\* answered 404
C8_Witness ==
    \E s \in slots :
      /\ reqs[s].route = "GET /api/leads/:id" /\ reqs[s].pc = "done"
      /\ reqs[s].status = 404
      /\ reqs[s].id = 1
      /\ leadSeq = 1 /\ leads = {}
      /\ activitySeq = 1 /\ activities = {}

\* a user object that carries the credential
Leaks(u) == ~Falsy(u) /\ "password" \in DOMAIN u

\* a lead object that carries a credential, itself or nested
LeadLeaks(x) ==
    \/ "password" \in DOMAIN x
    \/ "owner" \in DOMAIN x /\ Leaks(x.owner)
    \/ /\ "activities" \in DOMAIN x
       /\ \E i \in DOMAIN x.activities :
            "password" \in DOMAIN x.activities[i] \/ Leaks(x.activities[i].user)

ResponseLeaks(r) ==
    /\ r.pc = "done"
    /\ \/ /\ r.route = "GET /api/users" /\ r.status = 200
          /\ \E i \in DOMAIN r.resp : "password" \in DOMAIN r.resp[i]
       \/ /\ r.route = "GET /api/leads" /\ r.status = 200
          /\ \E i \in DOMAIN r.resp : LeadLeaks(r.resp[i])
       \/ /\ r.route \in {"GET /api/leads/:id", "POST /api/leads", "PUT /api/leads/:id"}
          /\ LeadLeaks(r.resp)
       \/ /\ r.route = "POST /api/activities"
          /\ "password" \in DOMAIN r.resp \/ ("user" \in DOMAIN r.resp /\ Leaks(r.resp.user))

EventLeaks(ev) ==
    /\ ev # None
    /\ \/ ev.type \in {"lead_created", "lead_updated"} /\ LeadLeaks(ev.data)
       \/ /\ ev.type = "activity_created"
          /\ "password" \in DOMAIN ev.data \/ Leaks(ev.data.user)

\* C9: no response body and no broadcast event carries a password, at top
\* level or nested as the owner of a lead or the author of an activity.
C9_NoPassword ==
    \A s \in slots : ~ResponseLeaks(reqs[s]) /\ ~EventLeaks(reqs[s].event)

\* the detail of a lead was answered with its owner and the author of one of
\* its activities
C9_Witness ==
    \E s \in slots :
      /\ reqs[s].route = "GET /api/leads/:id" /\ reqs[s].pc = "done"
      /\ reqs[s].status = 200
      /\ reqs[s].resp.owner.id \in UserIds
      /\ \E i \in DOMAIN reqs[s].resp.activities :
           reqs[s].resp.activities[i].user.id \in UserIds

\* the activities a sales_executive may see: those of their own leads
VisibleActivities(c) ==
    {a \in activities : \E l \in leads : l.id = a.leadId /\ l.ownerId = c}

\* C10: the statistics answered to a sales_executive are those of the
\* caller's own leads and of the activities of those leads, so that they are
\* the same in two stores that agree on these rows.
C10_StatsFromOwnData ==
    [][\A s \in slots :
         /\ (Stepped(s) /\ reqs[s].route = "GET /api/stats" /\ reqs[s].pc = "leads"
               /\ RoleOf(reqs[s].caller) = SALES
             => reqs'[s].data = LeadStats({l \in leads : l.ownerId = reqs[s].caller}))
         /\ (Answered(s, "GET /api/stats") /\ reqs[s].pc = "activities"
               /\ RoleOf(reqs[s].caller) = SALES
             => reqs'[s].resp =
                  Spread(reqs[s].data,
                         [recentActivity |->
                            recentActivity(VisibleActivities(reqs[s].caller),
                                           last7Days(reqs[s].ts))]))]_vars

\* C11 as stated: a create or an update issued by a sales_executive never
\* stores a lead whose ownerId differs from the id of the caller.
C11_SalesKeepsOwner ==
    [][\A s \in slots :
         Stepped(s) /\ RoleOf(reqs'[s].caller) = SALES =>
           \A l \in leads' \ leads : l.ownerId = reqs'[s].caller]_vars

Success == {200, 201, 204}

\* the request in slot s hands an event to broadcastToClients in this step
Broadcasts(s) == Stepped(s) /\ reqs'[s].event # None /\ reqs'[s].pc = "done"

\* C12 as stated: a request hands an event to the broadcast only if its own
\* write changed a row, and then it is answered with its success status; no
\* request answered 400, 401, 403 or 404 has broadcast anything.
C12_BroadcastAfterWrite ==
    [][\A s \in slots :
         /\ Broadcasts(s) => reqs'[s].wrote /\ reqs'[s].status \in Success
         /\ Stepped(s) /\ reqs'[s].pc = "done" /\ reqs'[s].status \notin Success
              => reqs'[s].event = None]_vars

\* C13 as stated: a request whose store write succeeded is answered with
\* its success status, also when client.send raises during the broadcast.
C13_BroadcastIsolated ==
    [][\A s \in slots :
         Stepped(s) /\ reqs'[s].pc = "done" /\ reqs'[s].wrote
           => reqs'[s].status \in Success]_vars

\* the store operation that the request in slot s is waiting for fails
StorageFails(r) ==
    \/ r.route = "POST /api/leads" /\ r.pc = "insert" /\ ~LeadFkOk(r.data)
    \/ /\ r.route = "PUT /api/leads/:id" /\ r.pc = "update"
       /\ LeadExists(leads, r.id) /\ ~LeadFkOk(r.data)
    \/ r.route = "POST /api/activities" /\ r.pc = "insert" /\ ~ActivityFkOk(leads, r.data)

\* the body of a request does not satisfy the schema of its route
BadBody(r) ==
    \/ /\ r.route = "POST /api/leads"
       /\ \/ \E f \in {"companyName", "contactName", "email", "source"} : f \notin DOMAIN r.body
          \/ RoleOf(r.caller) # SALES /\ "ownerId" \notin DOMAIN r.body
    \/ /\ r.route = "PUT /api/leads/:id"
       /\ "value" \in DOMAIN r.body /\ IsStr(r.body.value)
    \/ /\ r.route = "POST /api/activities"
       /\ \E f \in {"type", "subject"} : f \notin DOMAIN r.body

\* C14 as stated: a request whose store operation fails is answered 500, and
\* 400 is answered only to a request whose body fails schema validation.
C14_StorageError500 ==
    [][\A s \in slots :
         Stepped(s) /\ reqs'[s].pc = "done" =>
           /\ StorageFails(reqs[s]) => reqs'[s].status = 500
           /\ reqs'[s].status = 400 => BadBody(reqs'[s])]_vars

Validated == {"POST /api/leads", "PUT /api/leads/:id", "POST /api/activities"}

C16_UpdateAnswersRow ==
    [][\A s \in slots :
         /\ Answered(s, "PUT /api/leads/:id") /\ reqs'[s].status = 200
              => /\ reqs'[s].wrote
                 /\ reqs'[s].resp # None
         /\ Answered(s, "PUT /api/leads/:id") /\ reqs[s].pc \in {"refetch", "refetch_activities"}
              /\ ~reqs[s].wrote
              => reqs'[s].status = 404]_vars

\* the request in slot s is an update that was answered 200 and carried a status
StatusPut(r) ==
    /\ r.route = "PUT /api/leads/:id" /\ r.pc = "done" /\ r.status = 200
    /\ "status" \in DOMAIN r.body

\* C17: the UPDATE of a PUT that carries a status stores exactly that status
\* and leaves the other columns of the row, except updatedAt, as they were,
\* whatever other update is in flight; a PUT with a valid body on a lead that
\* is still stored is answered 200 with the row it wrote; and when two PUTs
\* with different status values have both been answered 200, the stored
\* status is one of the two.
C17_LastWriteWins ==
    [][/\ \A s \in slots :
            /\ Stepped(s) /\ reqs[s].route = "PUT /api/leads/:id" /\ reqs[s].pc = "update"
            /\ LeadExists(leads, reqs[s].id) /\ "status" \in DOMAIN reqs[s].data
            => LET old == LeadRow(leads, reqs[s].id)
                   new == LeadRow(leads', reqs[s].id)
               IN /\ new.status = reqs[s].body.status.s
                  /\ Omit(new, {"status", "updatedAt"}) = Omit(old, {"status", "updatedAt"})
                  /\ reqs'[s].lead = new
       /\ \A s \in slots :
            /\ Answered(s, "PUT /api/leads/:id")
            /\ "status" \in DOMAIN reqs'[s].body
            /\ LeadExists(leads', reqs'[s].id)
            /\ ~NotOwner(reqs'[s].caller, LeadRow(leads', reqs'[s].id))
            => /\ reqs'[s].status = 200
               /\ reqs'[s].resp.status = reqs'[s].body.status.s
       /\ \A s1, s2 \in slots :
            /\ StatusPut(reqs'[s1]) /\ StatusPut(reqs'[s2])
            /\ reqs'[s1].id = reqs'[s2].id
            /\ reqs'[s1].body.status # reqs'[s2].body.status
            /\ LeadExists(leads', reqs'[s1].id)
            => LeadRow(leads', reqs'[s1].id).status
                 \in {reqs'[s1].body.status.s, reqs'[s2].body.status.s}]_vars

\* two PUTs with different status values were both answered 200, and the one
\* that read the clock first wrote last: the stored row is its row
C17_Witness ==
    \E s1, s2 \in slots :
      /\ StatusPut(reqs[s1]) /\ StatusPut(reqs[s2])
      /\ reqs[s1].id = reqs[s2].id
      /\ reqs[s1].body.status # reqs[s2].body.status
      /\ reqs[s1].resp.updatedAt < reqs[s2].resp.updatedAt
      /\ LeadExists(leads, reqs[s1].id)
      /\ LeadRow(leads, reqs[s1].id) = reqs[s1].resp

\* C18 as stated: an UPDATE of updateLead that finds its row leaves it with
\* an updatedAt that is not smaller than the one it had.
C18_UpdatedAtMonotonic ==
    [][\A s \in slots :
         /\ Stepped(s) /\ reqs[s].route = "PUT /api/leads/:id" /\ reqs[s].pc = "update"
         /\ LeadExists(leads, reqs[s].id) /\ LeadExists(leads', reqs[s].id)
         => LeadRow(leads', reqs[s].id).updatedAt >= LeadRow(leads, reqs[s].id).updatedAt]_vars

\* C19: every stored activity references a stored lead and an existing user;
\* the INSERT of a POST /api/activities whose lead is no longer stored stores
\* no row and is answered with an error, and an activity stored before its
\* lead is deleted is removed by that deletion.
C19_NoOrphans ==
    [][/\ \A a \in activities' : LeadExists(leads', a.leadId) /\ a.userId \in UserIds
       /\ \A s \in slots :
            /\ Stepped(s) /\ reqs[s].route = "POST /api/activities" /\ reqs[s].pc = "insert"
            /\ ~LeadExists(leads, reqs[s].id)
            => /\ activities' = activities
               /\ reqs'[s].pc = "done" /\ reqs'[s].status \notin Success
               /\ reqs'[s].event = None
       /\ \A s \in slots :
            /\ Stepped(s) /\ reqs[s].route = "DELETE /api/leads/:id" /\ reqs[s].pc = "delete"
            => \A a \in activities' : a.leadId # reqs[s].id]_vars

\* an activity passed the lookup, its lead was deleted before the INSERT, and
\* the INSERT was refused without storing a row
C19_Witness ==
    \E s \in slots :
      /\ reqs[s].route = "POST /api/activities" /\ reqs[s].pc = "done"
      /\ reqs[s].status = 400
      /\ ~BadBody(reqs[s])
      /\ leads = {} /\ activities = {} /\ activitySeq = 1

\* an activity was stored and then removed by the deletion of its lead
C19_WitnessCascade ==
    /\ leads = {} /\ activities = {} /\ activitySeq = 1
    /\ \E s \in slots :
         /\ reqs[s].route = "POST /api/activities" /\ reqs[s].pc = "done"
         /\ reqs[s].status = 201

\* C20: the activity stored by a POST /api/activities that is answered 201
\* has the id of the caller as its userId, and so has the row in the answer,
\* whatever userId the body carries.
C20_ActivityUserForced ==
    [][\A s \in slots :
         Answered(s, "POST /api/activities") /\ reqs'[s].status = 201 =>
           /\ \E a \in activities' \ activities :
                a.id = activitySeq' /\ a.userId = reqs'[s].caller
           /\ \A a \in activities' \ activities : a.userId = reqs'[s].caller
           /\ reqs'[s].resp.userId = reqs'[s].caller]_vars

\* an activity was stored for a caller whose body named another user
C20_Witness ==
    \E s \in slots :
      /\ reqs[s].route = "POST /api/activities" /\ reqs[s].pc = "done"
      /\ reqs[s].status = 201
      /\ reqs[s].body.userId.n # reqs[s].caller
      /\ \E a \in activities : a.id = reqs[s].resp.id /\ a.userId = reqs[s].caller


\* the connection c as it is after the step, if it is still in wss.clients
After(c) == {d \in sockets' : d.id = c.id}

\* C21: a connection enters wss.clients open, with the connected
\* acknowledgement as the only message sent to it, and only for a hook whose
\* handshake was under way; every later message is an event appended behind
\* what was sent before, and only while the connection is OPEN; a connection
\* that is closing or has left wss.clients is sent nothing.
C21_ConnectedFirst ==
    [][/\ \A d \in sockets' :
            (~\E c \in sockets : c.id = d.id)
              => /\ d = Socket(d.id, FALSE)
                 /\ \E h \in DOMAIN hooks : hooks[h].ws = d.id /\ hooks[h].readyState = "CONNECTING"
       /\ \A c \in sockets : \A d \in After(c) :
            /\ d.out # c.out /\ Len(d.out) >= Len(c.out)
                 => /\ c.readyState = OPEN
                    /\ \E ev \in {reqs'[s].event : s \in slots} :
                         ev # None /\ ev.type \in EventTypes /\ d.out = Append(c.out, ev)
            /\ \A i \in DOMAIN d.out : d.out[i] = Connected => i = 1]_vars

\* a connection that has been sent an event behind its acknowledgement, while
\* another connection that is closing has been sent none
C21_Witness ==
    \E c, d \in sockets :
      /\ Len(c.out) = 2 /\ c.out[1] = Connected /\ c.out[2].type = "lead_created"
      /\ d.readyState = "CLOSING" /\ d.out = <<Connected>>

\* C22 as stated: a broadcast appends its event once to what was sent to
\* every connection that is OPEN at that moment, and to no other connection.
C22_EveryOpenOnce ==
    [][\A s \in slots :
         Broadcasts(s) =>
           \A c \in sockets :
             /\ After(c) # {}
             /\ \A d \in After(c) :
                  d.out = IF c.readyState = OPEN THEN Append(c.out, reqs'[s].event) ELSE c.out]_vars

\* the statistics of a caller without leads
NoLeadStats ==
    [totalLeads |-> 0, activeLeads |-> 0, convertedLeads |-> 0, totalValue |-> 0,
     leadsByStatus |-> {}, leadsBySource |-> {}]

\* C23: when the leads query of getStats finds no lead, the counts and the
\* total value are 0 and the two breakdowns are empty; when moreover no
\* activity is stored, recentActivity has exactly 7 entries with count 0 whose
\* dates are consecutive days in increasing order, the last one being the day
\* on which getStats computed them.
C23_EmptyStats ==
    [][\A s \in slots :
         /\ Stepped(s) /\ reqs'[s].route = "GET /api/stats" /\ reqs'[s].pc = "activities"
              /\ RoleFilter(leads, reqs[s].caller, RoleOf(reqs[s].caller)) = {}
              => reqs'[s].data = NoLeadStats /\ reqs'[s].ts = now
         /\ Answered(s, "GET /api/stats") /\ reqs'[s].status = 200
              /\ reqs[s].data = NoLeadStats /\ activities = {}
              => LET ra == reqs'[s].resp.recentActivity
                 IN /\ Omit(reqs'[s].resp, {"recentActivity"}) = NoLeadStats
                    /\ DOMAIN ra = 1..7
                    /\ \A i \in 1..7 : ra[i].count = 0
                    /\ \A i \in 1..6 : ra[i + 1].date = ra[i].date + 1
                    /\ ra[7].date = Day(reqs[s].ts)]_vars

\* a sales_executive without leads, while another user has one, is answered
\* the empty statistics on the last day of the clock
C23_Witness ==
    \E s \in slots :
      /\ reqs[s].route = "GET /api/stats" /\ reqs[s].status = 200
      /\ RoleOf(reqs[s].caller) = SALES
      /\ leads # {} /\ activities = {}
      /\ Omit(reqs[s].resp, {"recentActivity"}) = NoLeadStats
      /\ reqs[s].resp.recentActivity[7] = [date |-> Day(MaxTime), count |-> 0]
      /\ reqs[s].resp.recentActivity[1].count = 0


\* the answers GET /api/leads can give to the user of hook h
ServerLists(h) ==
    { [i \in DOMAIN q |-> sanitizeLead(q[i])] :
        q \in getAllLeads(leads, hooks[h].user, RoleOf(hooks[h].user)) }

\* hook h receives msg in this step
Receives(h, msg) ==
    \E c \in SocketOf(hooks[h]) :
      /\ c.out # <<>> /\ Head(c.out) = msg
      /\ \E d \in After(c) : d.out = Tail(c.out)

\* the page of hook h is open and at rest: its connection is OPEN on both
\* sides with nothing left to receive, no request is in flight, and its lead
\* list is cached, not stale and not being refetched
AtRest(h) ==
    /\ hooks[h].mounted = "yes" /\ hooks[h].readyState = OPEN
    /\ \E c \in SocketOf(hooks[h]) : c.readyState = OPEN /\ c.out = <<>>
    /\ \A s \in slots : reqs[s].pc \in {"idle", "done"}
    /\ hooks[h].leads # None /\ ~hooks[h].staleLeads /\ hooks[h].fetching = None

Closes(h) == hooks[h].readyState # "CLOSED" /\ hooks'[h].readyState = "CLOSED"

\* C25: when the connection of a mounted hook closes, a reconnect is
\* scheduled after 5000 ms and no connection is opened before it; when that
\* timer fires the hook opens a connection that has never existed before, and
\* a mounted hook whose timer is pending does get there; a connection enters
\* wss.clients with the acknowledgement only, and an event broadcast while the
\* hook has no OPEN connection is appended to nothing the hook will receive.
C25_Reconnects ==
    /\ [][\A h \in DOMAIN hooks :
            /\ Closes(h) /\ hooks[h].mounted = "yes"
                 => /\ hooks'[h].timer = 5000
                    /\ hooks'[h].ws = hooks[h].ws
            /\ hooks[h].timer # 0 /\ hooks'[h].timer = 0 /\ hooks'[h].mounted = "yes"
                 => /\ hooks'[h].readyState = "CONNECTING"
                    /\ hooks'[h].ws > connSeq
                    /\ ~\E c \in sockets \cup sockets' : c.id = hooks'[h].ws
            /\ \A d \in sockets' : d.id = hooks'[h].ws /\ (~\E c \in sockets : c.id = d.id)
                 => d.out = <<Connected>>
            /\ (\E s \in slots : Broadcasts(s))
                 /\ (~\E c \in SocketOf(hooks[h]) : c.readyState = OPEN)
                 => \A d \in sockets' : d.id = hooks'[h].ws => d \in sockets]_vars
    /\ (hooks[1].mounted = "yes" /\ hooks[1].timer # 0 /\ connSeq < MaxConn)
         ~> (hooks[1].readyState = "CONNECTING" \/ hooks[1].mounted = "gone")

\* the hook is on its second connection, which has been sent nothing but the
\* acknowledgement, although a lead was created and broadcast
C25_Witness ==
    /\ hooks[1].mounted = "yes" /\ hooks[1].ws = 2 /\ hooks[1].readyState = OPEN
    /\ \E c \in SocketOf(hooks[1]) : c.out = <<Connected>>
    /\ \E s \in slots : reqs[s].event # None /\ reqs[s].event.type = "lead_created"


\* C26 as stated: once the cleanup of the hook has run, the hook schedules no
\* reconnect and opens no new connection.
C26_NoReconnectAfterUnmount ==
    [][\A h \in DOMAIN hooks :
         hooks[h].mounted = "gone"
           => hooks'[h].timer = 0 /\ hooks'[h].ws = hooks[h].ws]_vars

\* C27: no reconnect is pending while the connection of a hook is connecting
\* or open, the pending reconnect is the one held by reconnectTimeout, and
\* every connection in wss.clients is the current one of its hook, so that a
\* hook never has two.
C27_OneConnection ==
    /\ \A h \in DOMAIN hooks :
         /\ hooks[h].readyState \in {"CONNECTING", OPEN} => hooks[h].timer = 0
         /\ hooks[h].timer # 0 => hooks[h].readyState = "CLOSED"
         /\ Cardinality(SocketOf(hooks[h])) <= 1
    /\ \A c \in sockets :
         \E h \in DOMAIN hooks : hooks[h].ws = c.id /\ hooks[h].readyState \in {OPEN, "CLOSING"}
    /\ \A h, g \in DOMAIN hooks : hooks[h].ws = hooks[g].ws /\ hooks[h].ws # 0 => h = g

\* the hook is on its third connection, open, with no reconnect pending, and
\* that connection is the only one the server holds
C27_Witness ==
    /\ hooks[1].ws = 3 /\ hooks[1].readyState = OPEN /\ hooks[1].timer = 0
    /\ Cardinality(sockets) = 1

\* C28 as stated, for the real-time events: a connection of a sales_executive
\* is sent the contents of a lead only if that user owns the lead.
C28_NoForeignLead ==
    \A h \in DOMAIN hooks :
      RoleOf(hooks[h].user) = SALES =>
        \A c \in SocketOf(hooks[h]) : \A i \in DOMAIN c.out :
          c.out[i].type \in {"lead_created", "lead_updated"}
            => c.out[i].data.ownerId = hooks[h].user

\* the write of the request in slot s takes effect in this step
Writes(s) == Stepped(s) /\ reqs'[s].wrote /\ ~reqs[s].wrote

\* C29 as stated: when the update or the new activity of a sales_executive
\* takes effect, the lead it applies to is owned by that caller.
C29_OwnerAtWrite ==
    [][\A s \in slots :
         Writes(s) /\ RoleOf(reqs'[s].caller) = SALES
           /\ reqs'[s].route \in {"PUT /api/leads/:id", "POST /api/activities"}
           => /\ LeadExists(leads, reqs'[s].id)
              /\ LeadRow(leads, reqs'[s].id).ownerId = reqs'[s].caller]_vars

\* the DELETE requests for lead id that have been answered 204, and those
\* that have broadcast lead_deleted
Deleted204(id) ==
    {s \in slots : reqs[s].route = "DELETE /api/leads/:id" /\ reqs[s].id = id
                     /\ reqs[s].pc = "done" /\ reqs[s].status = 204}

DeletedEvents(id) ==
    {s \in slots : reqs[s].route = "DELETE /api/leads/:id" /\ reqs[s].id = id
                     /\ reqs[s].event = Event("lead_deleted", [id |-> id])}

\* C30 as stated: for every lead id at most one DELETE answers 204 and at
\* most one lead_deleted event is broadcast.
C30_DeletedOnce ==
    \A id \in LeadIds :
      Cardinality(Deleted204(id)) <= 1 /\ Cardinality(DeletedEvents(id)) <= 1

============================================================================
